---------------------------- MODULE Spec2Model ----------------------------
(***************************************************************************)
(* Version-string ordering (python/verstr_compare.py):                     *)
(*   compare            the two-cursor, single-pass three-way comparator   *)
(*   _sortable_integer  the self-delimiting, order-preserving encoder      *)
(*   sortkey            the key generator built on the encoder             *)
(* Strings are sequences of code points; Python's 0-based s[i] is s[i+1].  *)
(***************************************************************************)
EXTENDS Integers, Sequences, FiniteSets, TLC

(***************************************************************************)
(* Bounds of the model.                                                    *)
(***************************************************************************)
\* longest input string of compare / sortkey
MaxLen == 3
\* longest third string of a transitivity triple
MaxLenC == 2
\* most digit runs of a zero-padded input, and most leading zeros of a run
MaxRuns == 2
MaxPad == 2
\* longest zero-stripped digit string given to the integer encoder
MaxDigits == 20
\* most leading zeros put in front of an encoder input
MaxZeros == 1

(***************************************************************************)
(* Characters.                                                             *)
(***************************************************************************)
NUL == 0
MINUS == 45
ZERO == 48
ONE == 49
NINE == 57
TILDE == 126

\* class CompareResult(IntEnum)
RIGHT == -1
EQUAL == 0
LEFT == 1

\* the three values of the parameter total_order
Off == "False"
Deferred == "True"
LEFTMOST_TOTAL_ORDER == "LEFTMOST_TOTAL_ORDER"
Modes == {Off, Deferred, LEFTMOST_TOTAL_ORDER}

\* _isdigit = lambda s: (s >= '0' and s <= '9')
_isdigit(c) == c >= ZERO /\ c <= NINE

(***************************************************************************)
(* compare: one record per activation, one operator per loop of the body.  *)
(* The labels are those of the function's debug prints.                    *)
(***************************************************************************)
\* the locals of compare after line 114
Start(a, b, m) ==
    [l |-> a, r |-> b, total_order |-> m, lp |-> 0, rp |-> 0,
     zlp |-> 0, zrp |-> 0, zeros |-> EQUAL, digits |-> EQUAL,
     global_zeros |-> EQUAL, pc |-> "main", result |-> EQUAL]

\* return v
Return(st, v) == [st EXCEPT !.pc = "done", !.result = v]

\* an exception leaves the function (IndexError, AssertionError)
Raise(st) == [st EXCEPT !.pc = "raised"]

\* main, but the end of both strings always gives EQUAL
main_AlwaysEqualAtEnd(st) ==
    IF st.lp = Len(st.l)
    THEN IF st.rp = Len(st.r)
         THEN Return(st, EQUAL)
         ELSE Return(st, RIGHT)
    ELSE IF st.rp = Len(st.r)
    THEN Return(st, LEFT)
    ELSE IF st.lp > Len(st.l) \/ st.rp > Len(st.r)
    THEN Raise(st)
    ELSE LET lc == st.l[st.lp + 1]
             rc == st.r[st.rp + 1]
         IN  IF _isdigit(lc) /\ _isdigit(rc)
             THEN [st EXCEPT !.zlp = st.lp, !.zrp = st.rp,
                             !.zeros = EQUAL, !.pc = "c0B"]
             ELSE IF lc > rc THEN Return(st, LEFT)
             ELSE IF lc < rc THEN Return(st, RIGHT)
             ELSE [st EXCEPT !.lp = st.lp + 1, !.rp = st.rp + 1]

\* lines 116-129 and 187-193: one pass through the head of the main loop
main(st) ==
    IF st.lp = Len(st.l)
    THEN IF st.rp = Len(st.r)
         THEN IF st.total_order # Off
              THEN Return(st, st.global_zeros)
              ELSE Return(st, EQUAL)
         ELSE Return(st, RIGHT)
    ELSE IF st.rp = Len(st.r)
    THEN Return(st, LEFT)
    ELSE IF st.lp > Len(st.l) \/ st.rp > Len(st.r)
    THEN Raise(st)
    ELSE LET lc == st.l[st.lp + 1]
             rc == st.r[st.rp + 1]
         IN  IF _isdigit(lc) /\ _isdigit(rc)
             THEN [st EXCEPT !.zlp = st.lp, !.zrp = st.rp,
                             !.zeros = EQUAL, !.pc = "c0B"]
             ELSE IF lc > rc THEN Return(st, LEFT)
             ELSE IF lc < rc THEN Return(st, RIGHT)
             ELSE [st EXCEPT !.lp = st.lp + 1, !.rp = st.rp + 1]

\* c0B, but the common zeros are not consumed
c0B_Skip(st) == [st EXCEPT !.pc = "c0L"]

\* lines 133-137: zeros common to both sides
c0B(st) ==
    IF /\ st.lp < Len(st.l) /\ st.l[st.lp + 1] = ZERO
       /\ st.rp < Len(st.r) /\ st.r[st.rp + 1] = ZERO
    THEN [st EXCEPT !.lp = st.lp + 1, !.rp = st.rp + 1]
    ELSE [st EXCEPT !.pc = "c0L"]

\* c0L, but recording the signal of the other side
c0L_SignalLeft(st) ==
    IF st.lp < Len(st.l) /\ st.l[st.lp + 1] = ZERO
    THEN [st EXCEPT !.zeros = LEFT, !.lp = st.lp + 1]
    ELSE [st EXCEPT !.pc = "c0R"]

\* c0L, but the left side's further zeros are not consumed
c0L_Skip(st) == [st EXCEPT !.pc = "c0R"]

\* lines 139-142: further zeros of the left side
c0L(st) ==
    IF st.lp < Len(st.l) /\ st.l[st.lp + 1] = ZERO
    THEN [st EXCEPT !.zeros = RIGHT, !.lp = st.lp + 1]
    ELSE [st EXCEPT !.pc = "c0R"]

\* c0R, but recording the signal of the left-only loop
c0R_SignalRight(st) ==
    IF st.rp < Len(st.r) /\ st.r[st.rp + 1] = ZERO
    THEN [st EXCEPT !.zeros = RIGHT, !.rp = st.rp + 1]
    ELSE [st EXCEPT !.digits = EQUAL, !.pc = "cdB"]

\* lines 143-147 and 153: further zeros of the right side
c0R(st) ==
    IF st.rp < Len(st.r) /\ st.r[st.rp + 1] = ZERO
    THEN IF st.zeros = RIGHT
         THEN Raise(st)
         ELSE [st EXCEPT !.zeros = LEFT, !.rp = st.rp + 1]
    ELSE [st EXCEPT !.digits = EQUAL, !.pc = "cdB"]

\* lines 155-162: left-aligned digits
cdB(st) ==
    IF /\ st.lp < Len(st.l) /\ _isdigit(st.l[st.lp + 1])
       /\ st.rp < Len(st.r) /\ _isdigit(st.r[st.rp + 1])
    THEN LET lc == st.l[st.lp + 1]
             rc == st.r[st.rp + 1]
             d  == IF st.digits = EQUAL /\ lc # rc
                   THEN (IF lc > rc THEN LEFT ELSE RIGHT)
                   ELSE st.digits
         IN  [st EXCEPT !.digits = d, !.lp = st.lp + 1, !.rp = st.rp + 1]
    ELSE [st EXCEPT !.pc = "digi"]

\* digi, but every total order returns the padding signal at once
digi_Eager(st) ==
    IF st.lp < Len(st.l) /\ _isdigit(st.l[st.lp + 1])
    THEN Return(st, LEFT)
    ELSE IF st.rp < Len(st.r) /\ _isdigit(st.r[st.rp + 1])
    THEN Return(st, RIGHT)
    ELSE IF st.digits # EQUAL
    THEN Return(st, st.digits)
    ELSE IF st.zeros # EQUAL
    THEN IF st.total_order # Off
         THEN Return(st, st.zeros)
         ELSE IF st.global_zeros = EQUAL
              THEN [st EXCEPT !.global_zeros = st.zeros, !.pc = "main"]
              ELSE [st EXCEPT !.pc = "main"]
    ELSE [st EXCEPT !.pc = "main"]

\* digi, but global_zeros is overwritten by every padding signal
digi_Overwrite(st) ==
    IF st.lp < Len(st.l) /\ _isdigit(st.l[st.lp + 1])
    THEN Return(st, LEFT)
    ELSE IF st.rp < Len(st.r) /\ _isdigit(st.r[st.rp + 1])
    THEN Return(st, RIGHT)
    ELSE IF st.digits # EQUAL
    THEN Return(st, st.digits)
    ELSE IF st.zeros # EQUAL
    THEN IF st.total_order = LEFTMOST_TOTAL_ORDER
         THEN Return(st, st.zeros)
         ELSE [st EXCEPT !.global_zeros = st.zeros, !.pc = "main"]
    ELSE [st EXCEPT !.pc = "main"]

\* lines 164-185: the outcome of one digit run
digi(st) ==
    IF st.lp < Len(st.l) /\ _isdigit(st.l[st.lp + 1])
    THEN Return(st, LEFT)
    ELSE IF st.rp < Len(st.r) /\ _isdigit(st.r[st.rp + 1])
    THEN Return(st, RIGHT)
    ELSE IF st.digits # EQUAL
    THEN Return(st, st.digits)
    ELSE IF st.zeros # EQUAL
    THEN IF st.total_order = LEFTMOST_TOTAL_ORDER
         THEN Return(st, st.zeros)
         ELSE IF st.global_zeros = EQUAL
              THEN [st EXCEPT !.global_zeros = st.zeros, !.pc = "main"]
              ELSE [st EXCEPT !.pc = "main"]
    ELSE [st EXCEPT !.pc = "main"]

\* the body of compare, one step
Step(st) ==
    CASE st.pc = "main" -> main(st)
      [] st.pc = "c0B"  -> c0B(st)
      [] st.pc = "c0L"  -> c0L(st)
      [] st.pc = "c0R"  -> c0R(st)
      [] st.pc = "cdB"  -> cdB(st)
      [] st.pc = "digi" -> digi(st)
      [] OTHER          -> st

RECURSIVE Run(_)
Run(st) == IF st.pc \in {"done", "raised"} THEN st ELSE Run(Step(st))

\* "raised" stands for the exception when the call does not return
Raised == 2

\* def compare(l, r, total_order=False)
compare(a, b, m) ==
    LET st == Run(Start(a, b, m))
    IN  IF st.pc = "done" THEN st.result ELSE Raised

(***************************************************************************)
(* _sortable_integer (with the defaults _integer=True, _sep="") and        *)
(* sortkey.                                                                *)
(***************************************************************************)
\* the decimal digits of a natural number
RECURSIVE Digits(_)
Digits(n) == IF n < 10 THEN <<ZERO + n>> ELSE Digits(n \div 10) \o <<ZERO + (n % 10)>>

\* str(n) of an int
str(n) == IF n < 0 THEN <<MINUS>> \o Digits(0 - n) ELSE Digits(n)

\* x.translate(__neg_transtable): "0123456789" -> "9876543210"
translate(x) == [i \in 1..Len(x) |-> IF _isdigit(x[i]) THEN ZERO + NINE - x[i] ELSE x[i]]

\* s[p:] for 0 <= p <= len(s)
From(s, p) == SubSeq(s, p + 1, Len(s))

\* lines 321-322: the index of the first character that is not "0"
RECURSIVE SkipZeros(_, _)
SkipZeros(s, p) == IF p < Len(s) /\ s[p + 1] = ZERO THEN SkipZeros(s, p + 1) ELSE p

\* _sortable_integer, but the single-digit length class is used up to 10 digits
RECURSIVE _sortable_integer_Boundary(_)
_sortable_integer_Boundary(s0) ==
    IF s0 = <<>> THEN <<ZERO, ZERO>>
    ELSE LET isneg == s0[1] = MINUS
             t == IF isneg THEN Tail(s0) ELSE s0
             p  == SkipZeros(t, 0)
             s  == From(t, p)
             n  == Len(s)
             e  == IF n <= 10
                   THEN Digits(n - 1) \o s
                   ELSE <<NINE>> \o _sortable_integer_Boundary(str(n - 10)) \o s
         IN  IF t = <<>> THEN <<ZERO, ZERO>>
             ELSE IF p = Len(t) THEN <<ZERO, ZERO>>
             ELSE IF isneg THEN <<MINUS>> \o translate(e)
             ELSE e

\* def _sortable_integer(s, _integer=True, _sep=""), lines 309-330, for s a
\* string; an int argument is passed as str of it (line 309)
RECURSIVE _sortable_integer(_)
_sortable_integer(s0) ==
    IF s0 = <<>> THEN <<ZERO, ZERO>>
    ELSE LET isneg == s0[1] = MINUS
             t == IF isneg THEN Tail(s0) ELSE s0
             p  == SkipZeros(t, 0)
             s  == From(t, p)
             n  == Len(s)
             e  == IF n <= 9
                   THEN Digits(n - 1) \o s
                   ELSE <<NINE>> \o _sortable_integer(str(n - 10)) \o s
         IN  IF t = <<>> THEN <<ZERO, ZERO>>
             ELSE IF p = Len(t) THEN <<ZERO, ZERO>>
             ELSE IF isneg THEN <<MINUS>> \o translate(e)
             ELSE e

\* lines 358-359: the index of the first digit at or after i
RECURSIVE SkipText(_, _)
SkipText(s, i) == IF i < Len(s) /\ ~_isdigit(s[i + 1]) THEN SkipText(s, i + 1) ELSE i

\* lines 370-371: the index of the first non-digit at or after i
RECURSIVE SkipDigits(_, _)
SkipDigits(s, i) == IF i < Len(s) /\ _isdigit(s[i + 1]) THEN SkipDigits(s, i + 1) ELSE i

\* lines 354-372: the loop of sortkey from index i, giving o and zero_o
RECURSIVE Scan(_, _, _, _)
Scan(s, i, o, zero_o) ==
    IF i >= Len(s) THEN [o |-> o, zero_o |-> zero_o]
    ELSE LET t == SkipText(s, i)
             o1 == o \o SubSeq(s, i + 1, t)
         IN  IF t = Len(s) THEN [o |-> o1, zero_o |-> zero_o]
             ELSE LET z == SkipZeros(s, t)
                      d == SkipDigits(s, z)
                  IN  Scan(s, d, o1 \o _sortable_integer(SubSeq(s, z + 1, d)),
                           Append(zero_o, 0 - (z - t + 1)))

\* replace, but NUL is left as it is
replace_NoEscape(o) == o

\* o.replace("\0", "\0~")
RECURSIVE replace(_)
replace(o) ==
    IF o = <<>> THEN <<>>
    ELSE (IF Head(o) = NUL THEN <<NUL, TILDE>> ELSE <<Head(o)>>) \o replace(Tail(o))

\* join, but the markers are encoded without their sign
RECURSIVE join_Positive(_)
join_Positive(zero_o) ==
    IF zero_o = <<>> THEN <<>>
    ELSE _sortable_integer(str(0 - Head(zero_o))) \o join_Positive(Tail(zero_o))

\* "".join(_sortable_integer(x) for x in zero_o)
RECURSIVE join(_)
join(zero_o) ==
    IF zero_o = <<>> THEN <<>>
    ELSE _sortable_integer(str(Head(zero_o))) \o join(Tail(zero_o))

\* def sortkey(s, total_order=False)
sortkey(s, m) ==
    LET k == Scan(s, 0, <<>>, <<>>)
    IN  IF m # Off
        THEN replace(k.o) \o <<NUL>> \o join(k.zero_o)
        ELSE k.o

\* the order of Python's str: -1, 0 or 1 as a < b, a = b, a > b
RECURSIVE StrCmp(_, _)
StrCmp(a, b) ==
    IF a = <<>> THEN (IF b = <<>> THEN 0 ELSE -1)
    ELSE IF b = <<>> THEN 1
    ELSE IF Head(a) < Head(b) THEN -1
    ELSE IF Head(a) > Head(b) THEN 1
    ELSE StrCmp(Tail(a), Tail(b))

(***************************************************************************)
(* The state: one activation of compare on (l, r, total_order), and one    *)
(* pair of encoder inputs with their encodings.                            *)
(***************************************************************************)
VARIABLES l, r, total_order, lp, rp, zlp, zrp, zeros, digits, global_zeros,
          pc, result, s1, s2, e1, e2

vars == <<l, r, total_order, lp, rp, zlp, zrp, zeros, digits, global_zeros,
          pc, result, s1, s2, e1, e2>>

cvars == <<l, r, total_order, lp, rp, zlp, zrp, zeros, digits, global_zeros,
           pc, result>>

evars == <<s1, s2, e1, e2>>

\* the characters of the inputs: NUL, two digits, and the escape character
Alphabet == {NUL, ZERO, ONE, TILDE}

\* every string of at most n characters
StrsUpTo(n) == UNION {[1..k -> Alphabet] : k \in 0..n}

Strs == StrsUpTo(MaxLen)

\* the activation as a record
Cur ==
    [l |-> l, r |-> r, total_order |-> total_order, lp |-> lp, rp |-> rp,
     zlp |-> zlp, zrp |-> zrp, zeros |-> zeros, digits |-> digits,
     global_zeros |-> global_zeros, pc |-> pc, result |-> result]

\* the activation becomes st
Becomes(st) ==
    /\ l' = st.l /\ r' = st.r /\ total_order' = st.total_order
    /\ lp' = st.lp /\ rp' = st.rp /\ zlp' = st.zlp /\ zrp' = st.zrp
    /\ zeros' = st.zeros /\ digits' = st.digits
    /\ global_zeros' = st.global_zeros /\ pc' = st.pc /\ result' = st.result

Init ==
    /\ l \in Strs /\ r \in Strs /\ total_order \in Modes
    /\ lp = 0 /\ rp = 0 /\ zlp = 0 /\ zrp = 0
    /\ zeros = EQUAL /\ digits = EQUAL /\ global_zeros = EQUAL
    /\ pc = "main" /\ result = EQUAL
    /\ s1 = <<>> /\ s2 = <<>> /\ e1 = <<>> /\ e2 = <<>>

Main == pc = "main" /\ Becomes(main(Cur)) /\ UNCHANGED evars
C0B  == pc = "c0B"  /\ Becomes(c0B(Cur))  /\ UNCHANGED evars
C0L  == pc = "c0L"  /\ Becomes(c0L(Cur))  /\ UNCHANGED evars
C0R  == pc = "c0R"  /\ Becomes(c0R(Cur))  /\ UNCHANGED evars
CdB  == pc = "cdB"  /\ Becomes(cdB(Cur))  /\ UNCHANGED evars
Digi == pc = "digi" /\ Becomes(digi(Cur)) /\ UNCHANGED evars

Next == Main \/ C0B \/ C0L \/ C0R \/ CdB \/ Digi

Spec == Init /\ [][Next]_vars

(***************************************************************************)
(* The same activation on zero-padded inputs: digit runs of 0..MaxPad      *)
(* zeros and an optional "1", separated by "~".                            *)
(***************************************************************************)
RECURSIVE Zeros(_)
Zeros(n) == IF n = 0 THEN <<>> ELSE <<ZERO>> \o Zeros(n - 1)

RunStrs == {Zeros(z) \o b : z \in 0..MaxPad, b \in {<<>>, <<ONE>>}} \ {<<>>}

RECURSIVE PadStrsOf(_)
PadStrsOf(n) ==
    IF n = 0 THEN {<<>>}
    ELSE {<<>>} \cup
         {d \o (IF t = <<>> THEN <<>> ELSE <<TILDE>> \o t) :
            d \in RunStrs, t \in PadStrsOf(n - 1)}

PadStrs == PadStrsOf(MaxRuns)

InitPad ==
    /\ l \in PadStrs /\ r \in PadStrs /\ total_order \in Modes
    /\ lp = 0 /\ rp = 0 /\ zlp = 0 /\ zrp = 0
    /\ zeros = EQUAL /\ digits = EQUAL /\ global_zeros = EQUAL
    /\ pc = "main" /\ result = EQUAL
    /\ s1 = <<>> /\ s2 = <<>> /\ e1 = <<>> /\ e2 = <<>>

SpecPad == InitPad /\ [][Next]_vars

(***************************************************************************)
(* The encoder applied to two signed decimal strings.                      *)
(***************************************************************************)
\* a digit string of n digits: a first digit, then n - 1 times a second one
RECURSIVE Fill(_, _)
Fill(n, c) == IF n = 0 THEN <<>> ELSE <<c>> \o Fill(n - 1, c)

Bodies ==
    {<<>>} \cup {<<f>> \o Fill(n - 1, g) : n \in 1..MaxDigits, f \in {ONE, NINE}, g \in {ZERO, NINE}}

IntInputs ==
    {sg \o Zeros(z) \o b : sg \in {<<>>, <<MINUS>>}, z \in 0..MaxZeros, b \in Bodies}

\* an encoding is never empty: <<>> stands for "not yet encoded"
InitInt ==
    /\ s1 \in IntInputs /\ s2 \in IntInputs /\ e1 = <<>> /\ e2 = <<>>
    /\ l = <<>> /\ r = <<>> /\ total_order = Off
    /\ lp = 0 /\ rp = 0 /\ zlp = 0 /\ zrp = 0
    /\ zeros = EQUAL /\ digits = EQUAL /\ global_zeros = EQUAL
    /\ pc = "done" /\ result = EQUAL

EncodeLeft ==
    /\ e1 = <<>> /\ s1 \in IntInputs
    /\ e1' = _sortable_integer(s1)
    /\ UNCHANGED <<s1, s2, e2>> /\ UNCHANGED cvars

EncodeRight ==
    /\ e2 = <<>> /\ s2 \in IntInputs
    /\ e2' = _sortable_integer(s2)
    /\ UNCHANGED <<s1, s2, e1>> /\ UNCHANGED cvars

NextInt == EncodeLeft \/ EncodeRight

SpecInt == InitInt /\ [][NextInt]_vars

(***************************************************************************)
(* Reference notions the properties are stated with.                       *)
(***************************************************************************)
\* compare has returned (an exception is not a return)
Returned == pc = "done"

\* the activation is over, by a return or by an exception
Over == pc \in {"done", "raised"}

\* the characters of a string
Chars(s) == {s[i] : i \in 1..Len(s)}

\* LEFT <-> RIGHT, EQUAL <-> EQUAL
Inverse(v) == 0 - v

\* the order of the keys of a and b under mode m
KeyOrder(a, b, m) == StrCmp(sortkey(a, m), sortkey(b, m))

\* a digit string without its leading zeros
RECURSIVE Magnitude(_)
Magnitude(d) == IF d # <<>> /\ Head(d) = ZERO THEN Magnitude(Tail(d)) ELSE d

\* the number of leading zeros of a digit string
LeadingZeros(d) == Len(d) - Len(Magnitude(d))

\* the maximal digit run of s that starts at index i (1-based)
RECURSIVE RunAt(_, _)
RunAt(s, i) ==
    IF i <= Len(s) /\ s[i] >= ZERO /\ s[i] <= NINE
    THEN <<s[i]>> \o RunAt(s, i + 1)
    ELSE <<>>

\* the maximal digit runs of s from index i on, in order
RECURSIVE DigitRuns(_, _)
DigitRuns(s, i) ==
    IF i > Len(s) THEN <<>>
    ELSE IF RunAt(s, i) = <<>> THEN DigitRuns(s, i + 1)
    ELSE <<RunAt(s, i)>> \o DigitRuns(s, i + Len(RunAt(s, i)))

\* s with the leading zeros of every maximal digit run removed, an all-zero
\* run becoming "0"
RECURSIVE Normalized(_, _)
Normalized(s, i) ==
    IF i > Len(s) THEN <<>>
    ELSE IF RunAt(s, i) = <<>> THEN <<s[i]>> \o Normalized(s, i + 1)
    ELSE (IF Magnitude(RunAt(s, i)) = <<>> THEN <<ZERO>> ELSE Magnitude(RunAt(s, i)))
         \o Normalized(s, i + Len(RunAt(s, i)))

SameButPadding(a, b) == Normalized(a, 1) = Normalized(b, 1)

\* the zero-padding signal of the leftmost pair of numerically equal digit
\* runs of a and b whose leading-zero counts differ: the side with more
\* leading zeros is the smaller one; EQUAL when there is no such pair
PadSignal(a, b) ==
    LET ra == DigitRuns(a, 1)
        rb == DigitRuns(b, 1)
        n  == IF Len(ra) < Len(rb) THEN Len(ra) ELSE Len(rb)
        D  == {i \in 1..n : /\ Magnitude(ra[i]) = Magnitude(rb[i])
                            /\ LeadingZeros(ra[i]) # LeadingZeros(rb[i])}
    IN  IF D = {} THEN EQUAL
        ELSE LET i == CHOOSE j \in D : \A k \in D : j <= k
             IN  IF LeadingZeros(ra[i]) > LeadingZeros(rb[i]) THEN RIGHT ELSE LEFT

\* the numeric order of two signed decimal strings: -1, 0 or 1
Sign(x) ==
    IF x # <<>> /\ Head(x) = MINUS
    THEN (IF Magnitude(Tail(x)) = <<>> THEN 0 ELSE -1)
    ELSE (IF Magnitude(x) = <<>> THEN 0 ELSE 1)

Abs(x) == IF x # <<>> /\ Head(x) = MINUS THEN Magnitude(Tail(x)) ELSE Magnitude(x)

MagCmp(a, b) ==
    IF Len(a) < Len(b) THEN -1 ELSE IF Len(a) > Len(b) THEN 1 ELSE StrCmp(a, b)

NumCmp(x, y) ==
    IF Sign(x) < Sign(y) THEN -1
    ELSE IF Sign(x) > Sign(y) THEN 1
    ELSE IF Sign(x) = 0 THEN 0
    ELSE IF Sign(x) = 1 THEN MagCmp(Abs(x), Abs(y))
    ELSE Inverse(MagCmp(Abs(x), Abs(y)))

(***************************************************************************)
(* Properties.                                                             *)
(***************************************************************************)

\* C1: in the modes Off and Deferred, compare(l, r) is LEFT, RIGHT or EQUAL
\* exactly as sortkey(l) is greater than, smaller than or equal to sortkey(r)
\* in the code-point order of strings, NUL characters included.
C1_KeyAgreement ==
    (Over /\ total_order \in {Off, Deferred})
        => (Returned /\ result = KeyOrder(l, r, total_order))

\* a Deferred comparison of strings holding NUL that the padding decides
C1_Witness ==
    /\ Returned /\ total_order = Deferred /\ NUL \in Chars(l) /\ NUL \in Chars(r)
    /\ lp = Len(l) /\ rp = Len(r) /\ result = RIGHT

\* C2 as stated: in Elementwise mode too, compare(l, r) is the order of the
\* keys sortkey(l, total_order), sortkey(r, total_order).
C2_ElementwiseKeyAgreement ==
    (Over /\ total_order = LEFTMOST_TOTAL_ORDER)
        => (Returned /\ result = KeyOrder(l, r, total_order))

\* C2 amended: in Elementwise mode compare(l, r) is the order of the keys
\* exactly when the default-mode result is EQUAL or is the Elementwise
\* result; otherwise it is the inverse of the order of the keys.
C2_ElementwiseAgreesUnlessPaddingFirst ==
    (Over /\ total_order = LEFTMOST_TOTAL_ORDER)
        => /\ Returned
           /\ IF compare(l, r, Off) \in {EQUAL, result}
              THEN result = KeyOrder(l, r, total_order)
              ELSE result = Inverse(KeyOrder(l, r, total_order))

\* an Elementwise comparison decided by the zero padding of a digit run
C2_Witness ==
    /\ Returned /\ total_order = LEFTMOST_TOTAL_ORDER
    /\ compare(l, r, Off) = EQUAL /\ result = LEFT /\ zeros = LEFT

\* C3: in every mode compare(l, r) is the inverse of compare(r, l), and
\* compare(l, l) is EQUAL.
C3_Antisymmetric ==
    Over => /\ Returned
            /\ result = Inverse(compare(r, l, total_order))
            /\ (l = r => result = EQUAL)

\* a comparison that the left side's extra leading zeros decide
C3_Witness ==
    /\ Returned /\ total_order = LEFTMOST_TOTAL_ORDER
    /\ result = RIGHT /\ zeros = RIGHT /\ digits = EQUAL

\* C4: in every mode, if compare(l, r) is not LEFT and compare(r, c) is not
\* LEFT then compare(l, c) is not LEFT, whatever the third string c.
C4_Transitive ==
    Over => /\ Returned
            /\ \A c \in StrsUpTo(MaxLenC) :
                  (result # LEFT /\ compare(r, c, total_order) # LEFT)
                      => compare(l, c, total_order) \in {RIGHT, EQUAL}

\* l and r differ only in padding and compare EQUAL, and r is below some c
C4_Witness ==
    /\ Returned /\ total_order = Off /\ result = EQUAL /\ l # r
    /\ \E c \in StrsUpTo(MaxLenC) : compare(r, c, Off) = RIGHT

\* C5: in the modes Deferred and Elementwise compare(l, r) is EQUAL exactly
\* when l and r are the same sequence of characters.
C5_TotalOrder ==
    (Over /\ total_order \in {Deferred, LEFTMOST_TOTAL_ORDER})
        => (Returned /\ (result = EQUAL <=> l = r))

\* two strings that differ only in zero padding are ordered strictly
C5_Witness ==
    /\ Returned /\ total_order = Deferred /\ l # r /\ SameButPadding(l, r)
    /\ result = LEFT

\* C6: a Deferred comparison returns the default-mode result whenever that
\* result is LEFT or RIGHT.
C6_DeferredRefinesOff ==
    (Over /\ total_order = Deferred /\ compare(l, r, Off) # EQUAL)
        => (Returned /\ result = compare(l, r, Off))

\* a later difference overrides a recorded zero-padding signal
C6_Witness ==
    /\ Returned /\ total_order = Deferred
    /\ global_zeros = RIGHT /\ result = LEFT

\* "2.015.8" and "2.15.08", the example of compare's docstring (line 73)
DocPadded == <<50, 46, 48, 49, 53, 46, 56>>
DocPlain == <<50, 46, 49, 53, 46, 48, 56>>

\* C7: in default mode compare(l, r) is EQUAL exactly when l and r are the
\* same string once the leading zeros of every digit run are removed, and
\* exactly then the default keys are equal; "2.015.8" and "2.15.08" compare
\* EQUAL.
C7_PaddingIgnored ==
    (Over /\ total_order = Off)
        => /\ Returned
           /\ (result = EQUAL <=> SameButPadding(l, r))
           /\ (sortkey(l, Off) = sortkey(r, Off) <=> SameButPadding(l, r))
           /\ compare(DocPadded, DocPlain, Off) = EQUAL

\* two different strings that compare EQUAL in default mode
C7_Witness ==
    /\ Returned /\ total_order = Off /\ result = EQUAL /\ l # r
    /\ global_zeros # EQUAL

\* C8: the encodings of two signed decimal strings are ordered as the
\* numbers are, and are equal exactly when the numbers are; zero is "00".
C8_EncoderOrder ==
    (e1 # <<>> /\ e2 # <<>>)
        => /\ StrCmp(e1, e2) = NumCmp(s1, s2)
           /\ (Sign(s1) = 0 => e1 = <<ZERO, ZERO>>)

\* a 9-digit and a 10-digit number, one on each side of the boundary
C8_Witness ==
    /\ e1 # <<>> /\ e2 # <<>>
    /\ Len(Abs(s1)) = 9 /\ Len(Abs(s2)) = 10 /\ Sign(s1) = 1 /\ Sign(s2) = 1

\* C9: once global_zeros is not EQUAL no step changes it, and a Deferred
\* comparison that exhausts both strings together returns the zero-padding
\* signal of the leftmost pair of numerically equal digit runs whose
\* leading-zero counts differ, the side with more leading zeros being the
\* smaller.
C9_FirstPaddingSignalKept ==
    /\ [][global_zeros # EQUAL => global_zeros' = global_zeros]_vars
    /\ []((Returned /\ total_order = Deferred /\ lp = Len(l) /\ rp = Len(r))
             => result = PadSignal(l, r))

\* a second digit run whose padding signal is the opposite of the recorded one
C9_Witness ==
    /\ pc = "digi" /\ total_order = Deferred
    /\ global_zeros = RIGHT /\ zeros = LEFT /\ digits = EQUAL
    /\ lp = Len(l) /\ rp = Len(r)

\* C10: compare never raises, is never stuck before it returns, and returns
\* LEFT, EQUAL or RIGHT; the cursors stay within the strings; the right-only
\* zero loop never runs after the left-only one; every iteration of a loop
\* advances a cursor, and every pass of the main loop that does not return
\* has advanced one.
C10_TotalAndAdvancing ==
    /\ [](/\ pc # "raised"
          /\ (Returned \/ ENABLED Next)
          /\ 0 <= lp /\ lp <= Len(l) /\ 0 <= rp /\ rp <= Len(r)
          /\ (Returned => result \in {LEFT, EQUAL, RIGHT})
          /\ (pc = "c0R" /\ zeros = RIGHT => ~(rp < Len(r) /\ r[rp + 1] = ZERO)))
    /\ [][/\ (pc' = pc => lp' + rp' > lp + rp)
          /\ (pc' = "main" /\ pc # "main" => lp' + rp' > zlp + zrp)
          /\ lp' >= lp /\ rp' >= rp]_vars

\* a digit run in which the left-only zero loop has run
C10_Witness ==
    /\ pc = "c0R" /\ zeros = RIGHT /\ lp < Len(l) /\ rp < Len(r)

=============================================================================
